---- MODULE Spec2Model ----
(***************************************************************************)
(* A model of the sia-app transportation demo:                             *)
(*   - the Translation/Message client (services/translationService.js),    *)
(*   - the chat widget (components/ChatButton.jsx),                        *)
(*   - the settings page script (section switching, language picker).      *)
(*                                                                         *)
(* Text is a tuple of one-character strings, so that String.trim and the   *)
(* comparisons of the code are computed.  An Error's message is a tuple of *)
(* tokens (the pieces the template literals of the code concatenate).      *)
(* Message ids are strings.  JS null and undefined are the two marker      *)
(* tuples Null and Undefined where a text is expected; a JSON value where  *)
(* an array or an object is expected carries its type (JArray, JObject,    *)
(* JString, JNull).  The timestamp field of a message is not               *)
(* modelled: no operation of the widget reads it except the time display.  *)
(***************************************************************************)
EXTENDS Integers, Sequences, FiniteSets, TLC

VARIABLES
    \* ---- chat widget (ChatButton.jsx) ----
    isOpen,            \* useState(false)
    message,           \* useState(''): the input field
    messages,          \* useState([]): the local message list
    isSending,         \* useState(false)
    apiError,          \* useState(''): error tokens, <<>> is ''
    language,          \* LanguageContext.language
    showOriginalMap,   \* useState({}): id -> boolean
    liveTranslations,  \* useState({}): id -> translation
    saves,             \* save requests in flight (continuations of handleSendMessage)
    fetches,           \* list requests in flight, in issue order (continuations of fetchMessages)
    timers,            \* pending setTimeout callbacks, in scheduling order
    now,               \* Date.now(), an abstract non-decreasing clock
    escaped,           \* an exception left a handler of the widget uncaught
    event,             \* the last step taken (history, read by the properties only)
    sendsLeft,         \* Sends the model still allows
    langsLeft,         \* language changes the model still allows
    \* ---- translation client called on its own ----
    client,
    \* ---- settings page script ----
    page

wvars == <<isOpen, message, messages, isSending, apiError, language, showOriginalMap,
           liveTranslations, saves, fetches, timers, now, escaped, event, sendsLeft, langsLeft>>
\* the state of the other two programs
others == <<client, page>>
vars == <<wvars, client, page>>

-----------------------------------------------------------------------------
(* Bounds of the model *)
MaxSends == 1        \* Sends in a behaviour of Spec
BurstSends == 2      \* Sends in a behaviour of SpecBurst
MaxLangs == 1        \* language changes in a behaviour
MaxNow == 1          \* the last value of the clock
MaxServerList == 1   \* the longest list the backend answers with
MaxLongList == 2     \* the longest list the backend answers with in SpecList

-----------------------------------------------------------------------------
(* JS values *)
Null == <<"null">>
Undefined == <<"undefined">>
EmptyMap == [k \in {} |-> Null]

\* A JSON value in a field that may hold an array or an object carries its
\* type; a field that holds a text is a text, Null or absent.
JArray(items) == [type |-> "array", items |-> items]
JObject(fields) == [type |-> "object", fields |-> fields]
JString(text) == [type |-> "string", text |-> text]
JNull == [type |-> "null"]

\* JS truthiness of a typed JSON value: null and '' are falsy, arrays and
\* objects are truthy
JTruthy(j) == j.type # "null" /\ ~(j.type = "string" /\ j.text = <<>>)

\* obj[key] is truthy, for a field that holds a typed JSON value
HasTruthy(obj, key) == key \in DOMAIN obj /\ JTruthy(obj[key])

\* JS truthiness of a string-or-null-or-undefined value
Truthy(v) == v \notin {Null, Undefined, <<>>}

\* The members every plain object ({} and the objects of JSON.parse) inherits
\* from Object.prototype: the function Object under "constructor", the
\* prototype itself under "__proto__", and the methods under their names.
\* Each is an object, so each is truthy.
ObjectPrototype ==
    [k \in {"constructor", "__defineGetter__", "__defineSetter__", "hasOwnProperty",
            "__lookupGetter__", "__lookupSetter__", "isPrototypeOf",
            "propertyIsEnumerable", "toString", "valueOf", "__proto__",
            "toLocaleString"} |->
        IF k = "__proto__" THEN <<"object", "Object.prototype">>
        ELSE <<"function", IF k = "constructor" THEN "Object" ELSE k>>]

\* obj[key] of a plain JS object: the own property, else the member inherited
\* from Object.prototype, else undefined
Get(obj, key) ==
    IF key \in DOMAIN obj THEN obj[key]
    ELSE IF key \in DOMAIN ObjectPrototype THEN ObjectPrototype[key]
    ELSE Undefined

\* { ...obj, [key]: val }: the own properties of obj and the own property key
Spread(obj, key, val) ==
    [k \in DOMAIN obj \cup {key} |-> IF k = key THEN val ELSE obj[k]]

\* delete copy[key] of a copy of obj: the own property goes, an inherited
\* member of that name stays readable
DeleteKey(obj, key) == [k \in DOMAIN obj \ {key} |-> obj[k]]

\* the WhiteSpace and LineTerminator code points of ECMAScript: TAB, LF, VT,
\* FF, CR, SPACE, NO-BREAK SPACE, U+1680, U+FEFF, and, written by their names
\* because a string of this module cannot hold them, the space separators
\* U+2000..U+200A, U+202F, U+205F, U+3000 and the line terminators LS and PS
WhiteSpace ==
    {"\t", "\n", "", "\f", "\r", " ", " ", " ", "﻿",
     "U+2000", "U+2001", "U+2002", "U+2003", "U+2004", "U+2005", "U+2006", "U+2007",
     "U+2008", "U+2009", "U+200A", "U+2028", "U+2029", "U+202F", "U+205F", "U+3000"}

IsSpace(c) == c \in WhiteSpace

RECURSIVE TrimStart(_)
TrimStart(s) == IF s # <<>> /\ IsSpace(Head(s)) THEN TrimStart(Tail(s)) ELSE s

RECURSIVE TrimEnd(_)
TrimEnd(s) ==
    IF s # <<>> /\ IsSpace(s[Len(s)]) THEN TrimEnd(SubSeq(s, 1, Len(s) - 1)) ELSE s

\* String.prototype.trim
Trim(s) == TrimEnd(TrimStart(s))

-----------------------------------------------------------------------------
(* config/api.js *)

BASE_URL == "http://localhost:8000"

ENDPOINT_TRANSLATE == <<"/translate/">>

ENDPOINT_LANGUAGES == <<"/languages">>

\* `${API_CONFIG.BASE_URL}${endpoint}`
getApiUrl(endpoint) == <<BASE_URL>> \o endpoint

-----------------------------------------------------------------------------
(* The backend's answers to a fetch.                                       *)
(*   kind   "neterr": fetch itself rejects; "http": a response arrived     *)
(*   status the HTTP status; response.ok is status in 200..299             *)
(*   text   what response.text() yields                                    *)
(*   body   "invalid": response.json() rejects with a SyntaxError;         *)
(*          "json": it yields json, an object or JsonNull (the value null) *)

NetErrMsg == <<"Failed to fetch">>
JsonErrMsg == <<"Unexpected token < in JSON">>
NullErrMsg == <<"Cannot read properties of null">>

JsonNull == [null |-> TRUE]

NetErr == [kind |-> "neterr", status |-> 0, text |-> <<>>, body |-> "invalid", json |-> EmptyMap]

Http(status, text, body, json) ==
    [kind |-> "http", status |-> status, text |-> text, body |-> body, json |-> json]

ResponseOk(resp) == resp.status \in 200..299

Resolved(v) == [kind |-> "resolved", value |-> v]
Rejected(m) == [kind |-> "rejected", message |-> m]

\* mutant: the error text leaves the status out
HttpErrorTextNoStatus(resp) == <<"HTTP error: ">> \o resp.text

\* `HTTP ${response.status}: ${errorText}`
HttpErrorText(resp) == <<"HTTP ", ToString(resp.status), ": ">> \o resp.text

\* `const data = await response.json()` for a data whose properties are read
\* next: an unparsable body rejects, and a property read of null throws
JsonData(resp) ==
    CASE resp.body = "invalid" -> Rejected(JsonErrMsg)
      [] resp.json = JsonNull -> Rejected(NullErrMsg)
      [] OTHER -> Resolved(resp.json)

\* the outcome of the statements after `await response.json()`, given theirs
\* for a data that was read
AfterJson(resp, used) == IF JsonData(resp).kind = "rejected" THEN JsonData(resp) ELSE used

\* catch (error) { throw new Error(`${prefix}${error.message}`) }
Rethrow(prefix, outcome) ==
    IF outcome.kind = "rejected" THEN Rejected(<<prefix>> \o outcome.message) ELSE outcome

-----------------------------------------------------------------------------
(* services/translationService.js *)

\* the fromLang = 'en' default parameter
DefaultFrom(fromLang) == IF fromLang = "undefined" THEN "en" ELSE fromLang

\* mutant: the short-circuit is missing
SameLanguageNever(fromLang, toLang) == FALSE

\* if (fromLang === toLang) return text
SameLanguage(fromLang, toLang) == DefaultFrom(fromLang) = toLang

\* mutant: the alias is not normalized
NormalizeTargetKeeps(toLang) == toLang

\* if (targetLang === 'tl') targetLang = 'fil'
NormalizeTarget(toLang) == IF toLang = "tl" THEN "fil" ELSE toLang

\* JSON.stringify({ text, target }): an undefined property is left out
TranslateBody(text, targetLang) ==
    IF targetLang = "undefined" THEN [text |-> text]
    ELSE [text |-> text, target |-> targetLang]

\* the requests translate issues
translateRequests(text, fromLang, toLang) ==
    IF SameLanguage(fromLang, toLang) THEN <<>>
    ELSE <<[method |-> "POST", url |-> getApiUrl(ENDPOINT_TRANSLATE),
            body |-> TranslateBody(text, NormalizeTarget(toLang))]>>

TranslateData(text, data) ==
    IF Truthy(Get(data, "error")) THEN Rejected(data.error)
    ELSE Resolved(IF Truthy(Get(data, "translated")) THEN data.translated ELSE text)

\* the outcome of translate, given the backend's answer to its request
translate(text, fromLang, toLang, resp) ==
    IF SameLanguage(fromLang, toLang) THEN Resolved(text)
    ELSE Rethrow("Translation failed: ",
            IF resp.kind = "neterr" THEN Rejected(NetErrMsg)
            ELSE IF ~ResponseOk(resp) THEN Rejected(HttpErrorText(resp))
            ELSE AfterJson(resp, TranslateData(text, resp.json)))

getSupportedLanguagesRequests ==
    <<[method |-> "GET", url |-> getApiUrl(ENDPOINT_LANGUAGES)]>>

\* return data.languages || []
LanguagesData(data) ==
    Resolved(IF HasTruthy(data, "languages") THEN data.languages ELSE JArray(<<>>))

getSupportedLanguages(resp) ==
    IF resp.kind = "neterr" THEN Rejected(NetErrMsg)
    ELSE IF ~ResponseOk(resp) THEN Rejected(<<"HTTP ", ToString(resp.status)>>)
    ELSE AfterJson(resp, LanguagesData(resp.json))

RootRequests == <<[method |-> "GET", url |-> getApiUrl(<<"/">>)]>>

isAvailable(resp) ==
    IF resp.kind = "neterr" THEN Resolved(FALSE) ELSE Resolved(ResponseOk(resp))

ConnectionData(resp, data) ==
    Resolved([success |-> TRUE, status |-> resp.status, message |-> Get(data, "message")])

testConnection(resp) ==
    LET tried == IF resp.kind = "neterr" THEN Rejected(NetErrMsg)
                 ELSE AfterJson(resp, ConnectionData(resp, resp.json))
    IN IF tried.kind = "rejected"
       THEN Resolved([success |-> FALSE, error |-> tried.message])
       ELSE tried

saveMessageRequests(text) ==
    <<[method |-> "POST", url |-> getApiUrl(<<"/send">>), body |-> [text |-> text]]>>

saveMessage(text, resp) ==
    Rethrow("Save message failed: ",
        IF resp.kind = "neterr" THEN Rejected(NetErrMsg)
        ELSE IF ~ResponseOk(resp) THEN Rejected(HttpErrorText(resp))
        ELSE IF resp.body = "invalid" THEN Rejected(JsonErrMsg)
        ELSE Resolved(resp.json))

\* the lang = 'en' default parameter
DefaultLang(lang) == IF lang = "undefined" THEN "en" ELSE lang

getMessagesRequests(lang) ==
    <<[method |-> "GET", url |-> getApiUrl(<<"/messages?lang=", DefaultLang(lang)>>)]>>

\* mutant: a body without the messages field is an error
MessagesDataRequired(data) ==
    IF HasTruthy(data, "messages") THEN Resolved(data.messages)
    ELSE Rejected(<<"no messages field">>)

\* return data.messages || []
MessagesData(data) ==
    Resolved(IF HasTruthy(data, "messages") THEN data.messages ELSE JArray(<<>>))

getMessages(lang, resp) ==
    Rethrow("Get messages failed: ",
        IF resp.kind = "neterr" THEN Rejected(NetErrMsg)
        ELSE IF ~ResponseOk(resp) THEN Rejected(HttpErrorText(resp))
        ELSE AfterJson(resp, MessagesData(resp.json)))

-----------------------------------------------------------------------------
(* The inputs of the chat widget: what the user types, the languages the   *)
(* context offers, and what the backend answers.                           *)

Hi == <<"h", "i">>
Ola == <<"o", "l", "a">>

\* the empty input, a blank one (a space, a no-break space and a carriage
\* return) and a text
Blank == <<" ", " ", "\r">>
WInputs == {<<>>, Blank, <<" ", "h", "i">>}
WLangs == {"en", "es"}
\* the ids the backend chooses: an ordinary one, and one that names a member
\* of Object.prototype
ServerIds == {"s1", "constructor"}

\* a message as the backend lists it (no pending field)
ServerMsgs == [id : ServerIds, original : {Hi}, translation : {Null, Hi, Ola}]

DistinctIds(list) ==
    \A i, j \in 1..Len(list) : i # j => list[i].id # list[j].id

\* each server response lists distinct ids
ServerLists ==
    {l \in UNION {[1..n -> ServerMsgs] : n \in 0..MaxServerList} : DistinctIds(l)}

\* a messages field that is neither an array nor null: a text, an object that
\* wraps the list, an object that wraps a text
OddLists ==
    {JString(Hi),
     JObject([messages |-> JArray(<<[id |-> "s1", original |-> Hi, translation |-> Ola]>>)]),
     JObject([messages |-> JString(Hi)])}

ErrBody == <<"Internal Server Error">>

SaveResponses ==
    {NetErr, Http(500, ErrBody, "invalid", EmptyMap), Http(200, <<>>, "json", EmptyMap)}
    \cup {Http(201, <<>>, "json", [message |-> JNull])}
    \cup {Http(201, <<>>, "json", [message |-> JObject([id |-> i, translation |-> t])]) :
            i \in ServerIds, t \in {Ola, Null}}

FetchResponses ==
    {Http(500, ErrBody, "invalid", EmptyMap)}
    \cup {Http(200, <<>>, "json", [messages |-> JArray(l)]) : l \in ServerLists}
    \cup {Http(200, <<>>, "json", [messages |-> JNull])}

\* the lists of the backend up to the length MaxLongList
LongServerLists ==
    {l \in UNION {[1..n -> ServerMsgs] : n \in 0..MaxLongList} : DistinctIds(l)}

\* the answers to a list request with a list up to that length
LongFetchResponses ==
    {Http(500, ErrBody, "invalid", EmptyMap)}
    \cup {Http(200, <<>>, "json", [messages |-> JArray(l)]) : l \in LongServerLists}

\* the answers whose messages field is no list
OddFetchResponses == {Http(200, <<>>, "json", [messages |-> j]) : j \in OddLists}

-----------------------------------------------------------------------------
(* components/ChatButton.jsx *)

Event(op, id) == [op |-> op, id |-> id]

\* mutant: the send control is disabled by a blank input only
SendDisabledIgnoresSending == ~Truthy(Trim(message))

\* disabled={!message.trim() || isSending}
SendDisabled == ~Truthy(Trim(message)) \/ isSending

\* the ids of the messages rendered, each with its Toggle and Delete buttons
RenderedIds == {messages[i].id : i \in 1..Len(messages)}

\* a call of a render's fetchMessages: the request is for the language that
\* render closed over, and the continuation keeps that render's
\* liveTranslations; active is the language of the context at the call
FetchCall(lang, live) == [lang |-> lang, live |-> live, active |-> language]

\* fetched.map(msg => ({ ...msg, translation: ... })) for one msg
EnhanceMessage(msg, live) ==
    LET liveTranslation == Get(live, msg.id)
    IN Spread(msg, "translation",
              IF Truthy(Get(msg, "translation")) /\ msg.translation # msg.original
              THEN msg.translation
              ELSE IF Truthy(liveTranslation) THEN liveTranslation ELSE msg.original)

EnhancedMessages(fetched, live) ==
    [i \in 1..Len(fetched) |-> EnhanceMessage(fetched[i], live)]

\* the optimistic message of a Send
OptimisticMsg ==
    [id |-> ToString(now), original |-> message, translation |-> Null, pending |-> TRUE]

\* response && response.message
HasMessage(response) == response # JsonNull /\ HasTruthy(response, "message")

\* response.message.id as the key of the cache: a property that is missing
\* reads undefined
MessageId(response) ==
    IF response.message.type = "object" /\ "id" \in DOMAIN response.message.fields
    THEN response.message.fields.id
    ELSE "undefined"

\* response.message.translation
MessageTranslation(response) ==
    IF response.message.type = "object"
    THEN Get(response.message.fields, "translation")
    ELSE Undefined

\* mutant: the optimistic entry gets the translation and stays pending
ReconcileStaysPending(prev, optId, liveTranslation) ==
    [i \in 1..Len(prev) |->
        IF prev[i].id = optId
        THEN Spread(prev[i], "translation", liveTranslation)
        ELSE prev[i]]

\* prev.map(msg => msg.id === optimisticMsg.id ? {...msg, translation, pending: false} : msg)
Reconcile(prev, optId, liveTranslation) ==
    [i \in 1..Len(prev) |->
        IF prev[i].id = optId
        THEN Spread(Spread(prev[i], "translation", liveTranslation), "pending", FALSE)
        ELSE prev[i]]

\* setTimeout(() => fetchMessages(), delay) inside the handleSendMessage call s
Timer(delay, s) == [delay |-> delay, at |-> now, lang |-> s.lang, live |-> s.live]

\* mutant: the filter keeps the entry with the id and drops the others
WithoutIdInverted(prev, id) == SelectSeq(prev, LAMBDA msg : msg.id = id)

\* prev.filter(msg => msg.id !== id)
WithoutId(prev, id) == SelectSeq(prev, LAMBDA msg : msg.id # id)

\* seq without its i-th element
RemoveAt(seq, i) ==
    [k \in 1..(Len(seq) - 1) |-> IF k < i THEN seq[k] ELSE seq[k + 1]]

WInit ==
    /\ isOpen = FALSE
    /\ message = <<>>
    /\ messages = <<>>
    /\ isSending = FALSE
    /\ apiError = <<>>
    /\ language \in WLangs
    /\ showOriginalMap = EmptyMap
    /\ liveTranslations = EmptyMap
    /\ saves = {}
    \* the effect of the first render has called fetchMessages
    /\ fetches = <<[lang |-> language, live |-> EmptyMap, active |-> language]>>
    /\ timers = <<>>
    /\ now = 0
    /\ escaped = FALSE
    /\ event = Event("mount", "")

\* onClick={() => setIsOpen(!isOpen)}
ToggleOpen ==
    /\ isOpen' = ~isOpen
    /\ event' = Event("toggleOpen", "")
    /\ UNCHANGED <<message, messages, isSending, apiError, language, showOriginalMap,
                   liveTranslations, saves, fetches, timers, now, escaped, sendsLeft,
                   langsLeft>>
    /\ UNCHANGED others

\* onClick={() => setIsOpen(false)} of the close button
Close ==
    /\ isOpen
    /\ isOpen' = FALSE
    /\ event' = Event("close", "")
    /\ UNCHANGED <<message, messages, isSending, apiError, language, showOriginalMap,
                   liveTranslations, saves, fetches, timers, now, escaped, sendsLeft,
                   langsLeft>>
    /\ UNCHANGED others

\* onChange={(e) => setMessage(e.target.value)}
TypeInput(text) ==
    /\ isOpen
    /\ text # message
    /\ message' = text
    /\ event' = Event("type", "")
    /\ UNCHANGED <<isOpen, messages, isSending, apiError, language, showOriginalMap,
                   liveTranslations, saves, fetches, timers, now, escaped, sendsLeft,
                   langsLeft>>
    /\ UNCHANGED others

\* the language of the context changes; the effect calls the new render's
\* fetchMessages
SetLanguage(lang) ==
    /\ langsLeft > 0
    /\ lang # language
    /\ language' = lang
    /\ fetches' = Append(fetches, [lang |-> lang, live |-> liveTranslations, active |-> lang])
    /\ langsLeft' = langsLeft - 1
    /\ event' = Event("setLanguage", "")
    /\ UNCHANGED <<isOpen, message, messages, isSending, apiError, showOriginalMap,
                   liveTranslations, saves, timers, now, escaped, sendsLeft>>
    /\ UNCHANGED others

\* time passes
Tick ==
    /\ now < MaxNow
    /\ now' = now + 1
    /\ event' = Event("tick", "")
    /\ UNCHANGED <<isOpen, message, messages, isSending, apiError, language, showOriginalMap,
                   liveTranslations, saves, fetches, timers, escaped, sendsLeft, langsLeft>>
    /\ UNCHANGED others

\* mutant: the input is tested without trim
BlankInputNoTrim(text) == ~Truthy(text)

\* !message.trim()
BlankInput(text) == ~Truthy(Trim(text))

\* handleSendMessage up to its await: it returns at once on a blank input
handleSendMessage ==
    IF BlankInput(message)
    THEN /\ event' = Event("sendBlank", "")
         /\ UNCHANGED <<messages, apiError, isSending, saves, sendsLeft>>
    ELSE /\ sendsLeft > 0
         /\ messages' = Append(messages, OptimisticMsg)
         /\ apiError' = <<>>
         /\ isSending' = TRUE
         /\ saves' = saves \cup {[n |-> sendsLeft, optId |-> OptimisticMsg.id,
                                  text |-> message, lang |-> language,
                                  live |-> liveTranslations]}
         /\ sendsLeft' = sendsLeft - 1
         /\ event' = Event("send", OptimisticMsg.id)

\* a click on the send button, which is not disabled
Send ==
    /\ isOpen
    /\ ~SendDisabled
    /\ handleSendMessage
    /\ UNCHANGED <<isOpen, message, language, showOriginalMap, liveTranslations,
                   fetches, timers, now, escaped, langsLeft>>
    /\ UNCHANGED others

\* handleSendMessage called on an input that is empty or whitespace only (the
\* send button is disabled then, so the call does not come from a click)
SendBlank ==
    /\ isOpen
    /\ ~Truthy(Trim(message))
    /\ handleSendMessage
    /\ UNCHANGED <<isOpen, message, language, showOriginalMap, liveTranslations,
                   fetches, timers, now, escaped, langsLeft>>
    /\ UNCHANGED others

\* mutant: both re-fetches are scheduled whatever the response carries
SendTryTwoTimers(s, response) ==
    /\ timers' = timers \o <<Timer(100, s), Timer(800, s)>>
    /\ IF HasMessage(response)
       THEN /\ liveTranslations' =
                  Spread(liveTranslations, MessageId(response), MessageTranslation(response))
            /\ messages' = Reconcile(messages, s.optId, MessageTranslation(response))
       ELSE UNCHANGED <<liveTranslations, messages>>

\* the try block of handleSendMessage after the await, for a resolved saveMessage
SendTry(s, response) ==
    IF HasMessage(response)
    THEN LET messageId == MessageId(response)
             liveTranslation == MessageTranslation(response)
         IN /\ liveTranslations' = Spread(liveTranslations, messageId, liveTranslation)
            /\ messages' = Reconcile(messages, s.optId, liveTranslation)
            /\ timers' = timers \o <<Timer(100, s), Timer(800, s)>>
    ELSE /\ timers' = Append(timers, Timer(800, s))
         /\ UNCHANGED <<liveTranslations, messages>>

\* mutant: the catch block only logs the error
SendCatchLogsOnly(error) ==
    UNCHANGED <<apiError, liveTranslations, messages, timers, escaped>>

\* the catch block of handleSendMessage: the error ends here
SendCatch(error) ==
    /\ apiError' = error.message
    /\ UNCHANGED <<liveTranslations, messages, timers, escaped>>

\* mutant: the finally block leaves the input as the user edited it
SendFinallyKeepsInput ==
    /\ message' = message
    /\ isSending' = FALSE

\* the finally block of handleSendMessage
SendFinally ==
    /\ message' = <<>>
    /\ isSending' = FALSE

\* the continuation of handleSendMessage when its save request settles: a
\* rejection of saveMessage is thrown inside the try block
SaveResponse(s, resp) ==
    /\ s \in saves
    /\ saves' = saves \ {s}
    /\ LET outcome == saveMessage(s.text, resp)
       IN IF outcome.kind = "resolved"
          THEN SendTry(s, outcome.value) /\ UNCHANGED <<apiError, escaped>>
          ELSE SendCatch(outcome)
    /\ SendFinally
    /\ event' = Event(IF saveMessage(s.text, resp).kind = "resolved"
                      THEN "saveResolved" ELSE "saveRejected", s.optId)
    /\ UNCHANGED <<isOpen, language, showOriginalMap, fetches, now, sendsLeft, langsLeft>>
    /\ UNCHANGED others

\* a timer may fire once time has passed since it was set, and after every
\* timer that was set before it with a delay that is not longer
TimerDue(i) ==
    /\ now > timers[i].at
    /\ \A j \in 1..(i - 1) : timers[j].delay > timers[i].delay

\* () => fetchMessages() of a setTimeout: the fetchMessages of the render that
\* handleSendMessage was called in
TimerFires(i) ==
    /\ i \in 1..Len(timers)
    /\ TimerDue(i)
    /\ fetches' = Append(fetches, FetchCall(timers[i].lang, timers[i].live))
    /\ timers' = RemoveAt(timers, i)
    /\ event' = Event("timer", "")
    /\ UNCHANGED <<isOpen, message, messages, isSending, apiError, language, showOriginalMap,
                   liveTranslations, saves, now, escaped, sendsLeft, langsLeft>>
    /\ UNCHANGED others

\* mutant: the fetched messages are appended to the list
FetchTryAppends(f, fetched) ==
    /\ messages' = messages \o EnhancedMessages(fetched, f.live)
    /\ UNCHANGED <<apiError, escaped>>

\* the try block of fetchMessages after the await, for the list to map over
FetchTry(f, fetched) ==
    /\ messages' = EnhancedMessages(fetched, f.live)
    /\ UNCHANGED <<apiError, escaped>>

\* the catch block of fetchMessages: the error ends here
FetchCatch(error) ==
    /\ apiError' = error.message
    /\ UNCHANGED <<messages, escaped>>

\* const fetched = Array.isArray(res) ? res : res.messages ? res.messages : [],
\* and fetched.map, which throws when fetched is no array
Fetched(res) ==
    IF res.type = "array" THEN Resolved(res.items)
    ELSE IF res.type = "object" /\ HasTruthy(res.fields, "messages")
    THEN IF res.fields.messages.type = "array" THEN Resolved(res.fields.messages.items)
         ELSE Rejected(<<"fetched.map is not a function">>)
    ELSE Resolved(<<>>)

\* what the try block of fetchMessages comes to: the list to map over, or the
\* error thrown by getMessages or by the map
FetchOutcome(f, resp) ==
    IF getMessages(f.lang, resp).kind = "resolved"
    THEN Fetched(getMessages(f.lang, resp).value)
    ELSE getMessages(f.lang, resp)

\* the continuation of fetchMessages when its list request settles
FetchResponse(i, resp) ==
    /\ i \in 1..Len(fetches)
    /\ fetches' = RemoveAt(fetches, i)
    /\ LET outcome == FetchOutcome(fetches[i], resp)
       IN IF outcome.kind = "resolved"
          THEN FetchTry(fetches[i], outcome.value)
          ELSE FetchCatch(outcome)
    /\ event' = Event(IF FetchOutcome(fetches[i], resp).kind = "resolved"
                      THEN "fetchResolved" ELSE "fetchRejected", fetches[i].lang)
    /\ UNCHANGED <<isOpen, message, isSending, language, showOriginalMap, liveTranslations,
                   saves, timers, now, sendsLeft, langsLeft>>
    /\ UNCHANGED others

\* mutant: Clear leaves the live-translation cache
handleClearKeepsCache ==
    /\ isOpen
    /\ messages' = <<>>
    /\ message' = <<>>
    /\ apiError' = <<>>
    /\ event' = Event("clear", "")
    /\ UNCHANGED <<isOpen, isSending, language, showOriginalMap, saves, fetches, timers,
                   now, escaped, sendsLeft, langsLeft, liveTranslations>>
    /\ UNCHANGED others

handleClear ==
    /\ isOpen
    /\ messages' = <<>>
    /\ message' = <<>>
    /\ apiError' = <<>>
    /\ liveTranslations' = EmptyMap
    /\ event' = Event("clear", "")
    /\ UNCHANGED <<isOpen, isSending, language, showOriginalMap, saves, fetches, timers,
                   now, escaped, sendsLeft, langsLeft>>
    /\ UNCHANGED others

handleDeleteMessage(id) ==
    /\ isOpen
    /\ id \in RenderedIds
    /\ messages' = WithoutId(messages, id)
    /\ showOriginalMap' = DeleteKey(showOriginalMap, id)
    /\ event' = [op |-> "delete", id |-> id,
                 removed |-> Len(messages) - Len(WithoutId(messages, id))]
    /\ UNCHANGED <<isOpen, message, isSending, apiError, language, liveTranslations,
                   saves, fetches, timers, now, escaped, sendsLeft, langsLeft>>
    /\ UNCHANGED others

\* mutant: the toggle sets the flag
ToggledMapSetsFlag(prev, id) == Spread(prev, id, TRUE)

\* prev => ({ ...prev, [msg.id]: !prev[msg.id] }): the own flag negated; with
\* no own flag, prev[msg.id] is the inherited member (truthy) or undefined
ToggledMap(prev, id) ==
    Spread(prev, id, IF id \in DOMAIN prev THEN ~prev[id] ELSE ~Truthy(Get(prev, id)))

\* setShowOriginalMap(prev => ({ ...prev, [msg.id]: !prev[msg.id] }))
ToggleOriginal(id) ==
    /\ isOpen
    /\ id \in RenderedIds
    /\ showOriginalMap' = ToggledMap(showOriginalMap, id)
    /\ event' = Event("toggleOriginal", id)
    /\ UNCHANGED <<isOpen, message, messages, isSending, apiError, language,
                   liveTranslations, saves, fetches, timers, now, escaped, sendsLeft,
                   langsLeft>>
    /\ UNCHANGED others

\* showOriginalMap[msg.id] || false, as the condition of displayText reads
\* it: the own flag; with no own flag, the truthiness of the inherited member
\* or of undefined
ShowOriginal(showMap, id) ==
    IF id \in DOMAIN showMap THEN showMap[id] ELSE Truthy(Get(showMap, id))

\* displayText of the render of one message
DisplayText(msg, showMap, live) ==
    LET liveTranslation == Get(live, msg.id)
        bestTranslation ==
            IF Truthy(Get(msg, "translation")) /\ msg.translation # msg.original
            THEN msg.translation
            ELSE IF Truthy(liveTranslation) THEN liveTranslation ELSE msg.original
    IN IF ShowOriginal(showMap, msg.id) THEN msg.original ELSE bestTranslation

\* the texts the message boxes show, in order
DisplayTexts(list, showMap, live) ==
    [k \in 1..Len(list) |-> DisplayText(list[k], showMap, live)]

Idle == client = 0 /\ page = 0

\* The widget with one Send, one language change and the clock running.
Init == WInit /\ sendsLeft = MaxSends /\ langsLeft = MaxLangs /\ Idle

Next ==
    \/ ToggleOpen
    \/ Close
    \/ \E text \in WInputs : TypeInput(text)
    \/ \E lang \in WLangs : SetLanguage(lang)
    \/ Tick
    \/ Send
    \/ \E s \in saves, resp \in SaveResponses : SaveResponse(s, resp)
    \/ \E i \in 1..Len(timers) : TimerFires(i)
    \/ \E i \in 1..Len(fetches), resp \in FetchResponses : FetchResponse(i, resp)
    \/ handleClear
    \/ \E id \in RenderedIds : handleDeleteMessage(id)

Spec == Init /\ [][Next]_vars

\* The widget with a burst of Sends inside one tick of the clock: no timer
\* comes due and the language stays.
InitBurst == WInit /\ sendsLeft = BurstSends /\ langsLeft = 0 /\ Idle

NextBurst ==
    \/ ToggleOpen
    \/ Close
    \/ \E text \in WInputs : TypeInput(text)
    \/ Send
    \/ SendBlank
    \/ \E s \in saves, resp \in SaveResponses : SaveResponse(s, resp)
    \/ \E i \in 1..Len(fetches), resp \in FetchResponses : FetchResponse(i, resp)
    \/ handleClear
    \/ \E id \in RenderedIds : handleDeleteMessage(id)

SpecBurst == InitBurst /\ [][NextBurst]_vars

\* The widget with one Send and the language fixed, and the user toggling
\* between the original and the translation of the messages shown.
InitView == WInit /\ sendsLeft = MaxSends /\ langsLeft = 0 /\ Idle

NextView ==
    \/ ToggleOpen
    \/ \E text \in WInputs : TypeInput(text)
    \/ Send
    \/ \E s \in saves, resp \in SaveResponses : SaveResponse(s, resp)
    \/ \E i \in 1..Len(fetches), resp \in FetchResponses : FetchResponse(i, resp)
    \/ \E id \in RenderedIds : ToggleOriginal(id)
    \/ \E id \in RenderedIds : handleDeleteMessage(id)

SpecView == InitView /\ [][NextView]_vars

\* The widget inside one tick of the clock, with one Send and one language
\* change: the list requests of the mount and of the language change overlap
\* with each other and with the save request; no re-fetch comes due.  The
\* backend also answers a list request with a messages field that is no list.
InitRace == WInit /\ sendsLeft = MaxSends /\ langsLeft = MaxLangs /\ Idle

NextRace ==
    \/ ToggleOpen
    \/ \E text \in WInputs : TypeInput(text)
    \/ \E lang \in WLangs : SetLanguage(lang)
    \/ Send
    \/ \E s \in saves, resp \in SaveResponses : SaveResponse(s, resp)
    \/ \E i \in 1..Len(fetches), resp \in FetchResponses \cup OddFetchResponses :
          FetchResponse(i, resp)

SpecRace == InitRace /\ [][NextRace]_vars

\* The widget with a burst of Sends inside one tick of the clock and a backend
\* that lists up to MaxLongList messages: the local list grows to four
\* entries, two of them with the same id, and the user deletes entries.
InitList == WInit /\ sendsLeft = BurstSends /\ langsLeft = 0 /\ Idle

NextList ==
    \/ ToggleOpen
    \/ \E text \in WInputs : TypeInput(text)
    \/ Send
    \/ \E s \in saves, resp \in SaveResponses : SaveResponse(s, resp)
    \/ \E i \in 1..Len(fetches), resp \in LongFetchResponses : FetchResponse(i, resp)
    \/ \E id \in RenderedIds : handleDeleteMessage(id)

SpecList == InitList /\ [][NextList]_vars

\* the backend answers a save request in flight
SaveSettles == \E s \in saves, resp \in SaveResponses : SaveResponse(s, resp)

\* The burst of Sends when every save request settles: fetch answers every
\* request in the end (with a response or with a rejection).
SpecLive == InitBurst /\ [][NextBurst]_vars /\ WF_vars(SaveSettles)

-----------------------------------------------------------------------------
(* The client called on its own: one call at a time, its arguments and the *)
(* backend's answer drawn from small sets.                                 *)

ClientTexts == {<<>>, Hi}
ClientLangs == {"en", "tl", "es", "undefined"}
ClientStatuses == {200, 204, 404, 500}

ClientBodies ==
    {JsonNull, EmptyMap, [message |-> <<"o", "k">>], [translated |-> Ola],
     [translated |-> <<>>], [error |-> <<"b", "a", "d">>, translated |-> Ola],
     [languages |-> JArray(<<"en", "tl">>)], [languages |-> JNull],
     [messages |-> JArray(<<[id |-> "s1", original |-> Hi]>>)], [messages |-> JNull]}

ClientResponses ==
    {NetErr}
    \cup {Http(st, IF st \in 200..299 THEN <<>> ELSE ErrBody, "invalid", EmptyMap) :
            st \in ClientStatuses}
    \cup {Http(st, IF st \in 200..299 THEN <<>> ELSE ErrBody, "json", b) :
            st \in ClientStatuses, b \in ClientBodies}

NoResp == [kind |-> "none"]
NoOutcome == [kind |-> "pending"]

ClientIdle ==
    [phase |-> "idle", op |-> "", text |-> <<>>, fromLang |-> "", toLang |-> "",
     requests |-> <<>>, resp |-> NoResp, outcome |-> NoOutcome]

\* the widget and the settings page stand still
WIdle == WInit /\ language = "en" /\ sendsLeft = 0 /\ langsLeft = 0

\* a call up to its first await: the requests it issues
ClientCall(op, text, fromLang, toLang, requests) ==
    /\ client.phase = "idle"
    /\ client' = [phase |-> "waiting", op |-> op, text |-> text, fromLang |-> fromLang,
                  toLang |-> toLang, requests |-> requests, resp |-> NoResp,
                  outcome |-> NoOutcome]
    /\ UNCHANGED <<wvars, page>>

\* translate(text, fromLang, toLang): it returns at once when it issues no request
CallTranslate(text, fromLang, toLang) ==
    /\ client.phase = "idle"
    /\ client' = [phase |-> IF translateRequests(text, fromLang, toLang) = <<>>
                            THEN "done" ELSE "waiting",
                  op |-> "translate", text |-> text, fromLang |-> fromLang,
                  toLang |-> toLang,
                  requests |-> translateRequests(text, fromLang, toLang),
                  resp |-> NoResp,
                  outcome |-> IF translateRequests(text, fromLang, toLang) = <<>>
                              THEN translate(text, fromLang, toLang, NoResp)
                              ELSE NoOutcome]
    /\ UNCHANGED <<wvars, page>>

CallGetSupportedLanguages ==
    ClientCall("getSupportedLanguages", <<>>, "", "", getSupportedLanguagesRequests)

CallIsAvailable == ClientCall("isAvailable", <<>>, "", "", RootRequests)

CallTestConnection == ClientCall("testConnection", <<>>, "", "", RootRequests)

CallSaveMessage(text) == ClientCall("saveMessage", text, "", "", saveMessageRequests(text))

CallGetMessages(lang) == ClientCall("getMessages", <<>>, "", lang, getMessagesRequests(lang))

\* the outcome of the call in progress, given the backend's answer
ClientOutcome(c, resp) ==
    CASE c.op = "translate" -> translate(c.text, c.fromLang, c.toLang, resp)
      [] c.op = "getSupportedLanguages" -> getSupportedLanguages(resp)
      [] c.op = "isAvailable" -> isAvailable(resp)
      [] c.op = "testConnection" -> testConnection(resp)
      [] c.op = "saveMessage" -> saveMessage(c.text, resp)
      [] c.op = "getMessages" -> getMessages(c.toLang, resp)

\* the backend answers the request of the call in progress
ClientSettle(resp) ==
    /\ client.phase = "waiting"
    /\ client' = [client EXCEPT !.phase = "done", !.resp = resp,
                                !.outcome = ClientOutcome(client, resp)]
    /\ UNCHANGED <<wvars, page>>

\* the caller takes the result
ClientReturn ==
    /\ client.phase = "done"
    /\ client' = ClientIdle
    /\ UNCHANGED <<wvars, page>>

InitClient == WIdle /\ client = ClientIdle /\ page = 0

NextClient ==
    \/ \E text \in ClientTexts, fromLang \in ClientLangs, toLang \in ClientLangs :
          CallTranslate(text, fromLang, toLang)
    \/ CallGetSupportedLanguages
    \/ CallIsAvailable
    \/ CallTestConnection
    \/ \E text \in ClientTexts : CallSaveMessage(text)
    \/ \E lang \in ClientLangs : CallGetMessages(lang)
    \/ \E resp \in ClientResponses : ClientSettle(resp)
    \/ ClientReturn

SpecClient == InitClient /\ [][NextClient]_vars

-----------------------------------------------------------------------------
(* The settings page script.  The page it runs on:                         *)
(*   nav      the .settings-nav-item elements: data-section, class active  *)
(*   elems    the other elements in document order: whether the element is *)
(*            a .settings-section, its id ("" for none), class active      *)
(*   options  the .language-option elements: the text of .language-name    *)
(*            and the .check-icon: "none", "hidden" or "shown"             *)
(*   selectedLanguage, and last, the last click (history)                  *)

NumNav == 2
NumOptions == 2

SectionNames == {"general", "language"}

\* the pages the script is loaded on: one element that is no section, with or
\* without an id, before two sections; a nav item may name no element
PageNavs == [1..NumNav -> [section : SectionNames \cup {"missing", ""}, active : BOOLEAN]]

PageElems ==
    {<<[isSection |-> FALSE, id |-> o, active |-> FALSE],
       [isSection |-> TRUE, id |-> a, active |-> act],
       [isSection |-> TRUE, id |-> b, active |-> FALSE]>> :
        o \in {"", "general"}, a \in SectionNames, b \in SectionNames, act \in BOOLEAN}

PageOptions ==
    [1..NumOptions -> [label : {"English (US)", "Filipino"},
                       icon : {"none", "hidden", "shown"}]]

NoClick == [kind |-> "load", i |-> 0]

\* classList.remove('active') on every element of a list
DeactivateAll(list) == [k \in 1..Len(list) |-> [list[k] EXCEPT !.active = FALSE]]

\* mutant: the sections keep their active class
SectionsStayActive(elems) == elems

\* sections.forEach(s => s.classList.remove('active'))
DeactivateSections(elems) ==
    [k \in 1..Len(elems) |->
        IF elems[k].isSection THEN [elems[k] EXCEPT !.active = FALSE] ELSE elems[k]]

\* document.getElementById(id): the index of the first element with the id, 0 for null
getElementById(elems, id) ==
    IF id # "" /\ \E k \in 1..Len(elems) : elems[k].id = id
    THEN CHOOSE k \in 1..Len(elems) :
            /\ elems[k].id = id
            /\ \A j \in 1..(k - 1) : elems[j].id # id
    ELSE 0

\* document.getElementById(sectionId)?.classList.add('active')
ActivateById(elems, id) ==
    LET k == getElementById(elems, id)
    IN IF k = 0 THEN elems ELSE [elems EXCEPT ![k].active = TRUE]

\* checkIcon?.classList.remove('hidden')
ShowIcon(option) ==
    IF option.icon = "none" THEN option ELSE [option EXCEPT !.icon = "shown"]

\* mutant: the check marks of the other options stay
HideIconsKeeps(options) == options

\* document.querySelectorAll('.check-icon').forEach(icon => icon.classList.add('hidden'))
HideIcons(options) ==
    [k \in 1..Len(options) |->
        IF options[k].icon = "none" THEN options[k] ELSE [options[k] EXCEPT !.icon = "hidden"]]

\* the loop over languageOptions at load: the check mark of 'English (US)'
InitialOptions(options) ==
    [k \in 1..Len(options) |->
        IF options[k].label = "English (US)" THEN ShowIcon(options[k]) ELSE options[k]]

\* the page after the script has run
PInit ==
    \E nav \in PageNavs, elems \in PageElems, options \in PageOptions :
        /\ \A k \in 2..NumNav : ~nav[k].active
        /\ page = [nav |-> nav, elems |-> elems, options |-> InitialOptions(options),
                   selectedLanguage |-> "english", last |-> NoClick]

\* the click handler of nav item i
NavClick(i) ==
    /\ i \in 1..Len(page.nav)
    /\ page' = [page EXCEPT
                  !.nav = [DeactivateAll(page.nav) EXCEPT ![i].active = TRUE],
                  !.elems = ActivateById(DeactivateSections(page.elems), page.nav[i].section),
                  !.last = [kind |-> "nav", i |-> i]]
    /\ UNCHANGED <<wvars, client>>

\* the click handler of language option j
OptionClick(j) ==
    /\ j \in 1..Len(page.options)
    /\ page' = [page EXCEPT
                  !.options = [HideIcons(page.options) EXCEPT ![j] = ShowIcon(@)],
                  !.selectedLanguage = page.options[j].label,
                  !.last = [kind |-> "option", i |-> j]]
    /\ UNCHANGED <<wvars, client>>

InitSettings == WIdle /\ client = 0 /\ PInit

NextSettings ==
    \/ \E i \in 1..NumNav : NavClick(i)
    \/ \E j \in 1..NumOptions : OptionClick(j)

SpecSettings == InitSettings /\ [][NextSettings]_vars

-----------------------------------------------------------------------------
(* Properties of the chat widget *)

\* list holds an entry with this id that is reconciled with the translation
ReconciledIn(list, id, translation) ==
    \E i \in 1..Len(list) :
        /\ list[i].id = id
        /\ "pending" \in DOMAIN list[i] /\ list[i].pending = FALSE
        /\ list[i].translation = translation

HasId(list, id) == \E i \in 1..Len(list) : list[i].id = id

\* the save request s settles with a 2xx response that carries a message
SaveSucceeds(s, resp) ==
    /\ SaveResponse(s, resp)
    /\ resp.kind = "http" /\ ResponseOk(resp) /\ HasMessage(resp.json)

\* C1 as stated: whenever the save request of a Send succeeds with a response
\* carrying a message, the optimistic entry of that Send is in the local list
\* with pending = false and the translation the server returned, whatever
\* happened between the Send and the response.  (No later step of the widget
\* marks an entry pending = false, so an entry that is not reconciled by the
\* step that processes the response is never reconciled.)
C1_ReconciledWhateverHappened ==
    [][\A s \in saves, resp \in SaveResponses :
          SaveSucceeds(s, resp) =>
              ReconciledIn(messages', s.optId, resp.json.message.fields.translation)]_vars

\* C1 amended: when the save request of a Send succeeds with a response
\* carrying a message and the optimistic entry is still in the local list, the
\* step that processes the response leaves it in the list with pending = false
\* and the server's translation; when a fetch response, Delete or Clear has
\* removed it, the response leaves the list as it is.
C1_ReconciledIfStillListed ==
    [][\A s \in saves, resp \in SaveResponses :
          SaveSucceeds(s, resp) =>
              IF HasId(messages, s.optId)
              THEN ReconciledIn(messages', s.optId, resp.json.message.fields.translation)
              ELSE messages' = messages]_vars

\* C1 witness: a successful save response has just reconciled the optimistic
\* entry with the server's translation
C1_Witness ==
    /\ event.op = "saveResolved"
    /\ ReconciledIn(messages, event.id, Ola)

\* C2: a Send appends the optimistic entry (pending = true, translation = null)
\* and sets isSending; while a save request is in flight isSending is true and
\* the send control is disabled; at most one save request is in flight.
C2_SendGate ==
    /\ [](/\ Cardinality(saves) <= 1
          /\ saves # {} => (isSending /\ SendDisabled)
          /\ \A s \in saves : Cardinality({t \in saves : t.optId = s.optId}) = 1)
    /\ [][event'.op = "send" =>
            /\ Len(messages') = Len(messages) + 1
            /\ SubSeq(messages', 1, Len(messages)) = messages
            /\ messages'[Len(messages')] =
                  [id |-> event'.id, original |-> message, translation |-> Null,
                   pending |-> TRUE]
            /\ isSending'
            /\ saves = {} /\ Cardinality(saves') = 1]_vars

\* C2 witness: a save request is in flight while the input is non-blank and the
\* model would allow another Send
C2_Witness ==
    /\ saves # {}
    /\ Truthy(Trim(message))
    /\ isOpen /\ sendsLeft > 0

\* the save request s settles with a network failure or a non-2xx response
SaveFails(s, resp) ==
    /\ SaveResponse(s, resp)
    /\ resp.kind = "neterr" \/ ~ResponseOk(resp)

\* C3: when the save request of a Send fails, the error's message is in the
\* error state (and is displayed: it is not empty), the failure handling
\* leaves the local list as it is, so the optimistic entry is not removed, and
\* no exception escapes.
C3_SaveFailureShown ==
    [][\A s \in saves, resp \in SaveResponses :
          SaveFails(s, resp) =>
              /\ apiError' = saveMessage(s.text, resp).message
              /\ Truthy(apiError')
              /\ apiError'[1] = "Save message failed: "
              /\ messages' = messages
              /\ ~escaped']_vars

\* C3 witness: a save has just failed and its optimistic entry is still listed
C3_Witness ==
    /\ event.op = "saveRejected"
    /\ HasId(messages, event.id)
    /\ Truthy(apiError)

\* the entries of list whose id is not id, in order
RECURSIVE KeepOthers(_, _)
KeepOthers(list, id) ==
    IF list = <<>> THEN <<>>
    ELSE IF Head(list).id = id THEN KeepOthers(Tail(list), id)
    ELSE <<Head(list)>> \o KeepOthers(Tail(list), id)

\* C4: Delete(id) removes exactly the entries with that id (all of them when
\* several entries share it), keeps the others unchanged and in order, issues
\* no request, and leaves the input, the error state, isSending and the
\* live-translation cache unchanged.
C4_DeleteFrame ==
    [][event'.op = "delete" =>
          /\ messages' = KeepOthers(messages, event'.id)
          /\ ~HasId(messages', event'.id)
          /\ Len(messages') = Len(messages) - event'.removed
          /\ event'.removed = Cardinality({i \in 1..Len(messages) :
                                              messages[i].id = event'.id})
          /\ UNCHANGED <<saves, fetches, timers>>
          /\ UNCHANGED <<message, apiError, isSending, liveTranslations>>]_vars

\* C4 witness: a Delete has just removed the two entries that shared an id
\* from a list of four and left the two others, which differ, while the cache
\* holds a translation and a save request is in flight
C4_Witness ==
    /\ event.op = "delete"
    /\ event.removed = 2
    /\ Len(messages) = 2
    /\ messages[1] # messages[2]
    /\ liveTranslations # EmptyMap
    /\ isSending

\* C5 as stated: no two entries of the local list have the same id
C5_UniqueIds == DistinctIds(messages)

\* C10 as stated: every list request is issued for the language that is active
\* when it is issued
C10_FetchForActiveLanguage ==
    \A i \in 1..Len(fetches) :
        getMessagesRequests(fetches[i].lang) = getMessagesRequests(fetches[i].active)

-----------------------------------------------------------------------------
(* Properties of the client *)

LangCodes == ClientLangs \ {"undefined"}

\* the call that has just finished got a non-2xx HTTP response
GotNon2xx == client.phase = "done" /\ client.resp.kind = "http" /\ ~ResponseOk(client.resp)

\* the outcome is a rejection whose message contains the status code
RejectedWithStatus ==
    /\ client.outcome.kind = "rejected"
    /\ \E i \in 1..Len(client.outcome.message) :
          client.outcome.message[i] = ToString(client.resp.status)

\* C6 as stated: a non-2xx response makes every client operation reject with an
\* error whose message contains the status code
C6_EveryOperationRejects == GotNon2xx => RejectedWithStatus

\* C6 amended: a non-2xx response makes translate (with differing languages),
\* getSupportedLanguages, saveMessage and getMessages reject with an error whose
\* message contains the status code; isAvailable and testConnection do not
\* reject: isAvailable resolves to false, testConnection to a result object.
C6_ThrowingOperationsReject ==
    GotNon2xx =>
        IF client.op \in {"isAvailable", "testConnection"}
        THEN /\ client.outcome.kind = "resolved"
             /\ client.op = "isAvailable" => client.outcome.value = FALSE
        ELSE RejectedWithStatus

\* C6 witness: getMessages has rejected on a 500
C6_Witness ==
    /\ GotNon2xx
    /\ client.op = "getMessages" /\ client.resp.status = 500
    /\ client.outcome.kind = "rejected"

\* C7: translate(text, L, L) returns text unchanged and issues no request, for
\* every text and every language code L
C7_SameLanguageShortCircuit ==
    (/\ client.op = "translate"
     /\ client.phase # "idle"
     /\ client.fromLang \in LangCodes
     /\ client.fromLang = client.toLang)
    => /\ client.phase = "done"
       /\ client.requests = <<>>
       /\ client.resp = NoResp
       /\ client.outcome = Resolved(client.text)

\* C7 witness: translate(Hi, "tl", "tl") has returned
C7_Witness ==
    /\ client.op = "translate" /\ client.phase = "done"
    /\ client.fromLang = "tl" /\ client.toLang = "tl" /\ client.text = Hi

\* C8: translate with from # to issues exactly one request; its body holds the
\* text and a target field and nothing else; the target is "fil" when to is
\* "tl" and to otherwise
C8_OneRequestNormalizedTarget ==
    (/\ client.op = "translate"
     /\ client.phase # "idle"
     /\ client.fromLang \in LangCodes /\ client.toLang \in LangCodes
     /\ client.fromLang # client.toLang)
    => /\ Len(client.requests) = 1
       /\ DOMAIN client.requests[1].body = {"text", "target"}
       /\ client.requests[1].body.text = client.text
       /\ client.requests[1].body.target =
             (IF client.toLang = "tl" THEN "fil" ELSE client.toLang)
       /\ client.requests[1].method = "POST"

\* C8 witness: translate(Hi, "en", "tl") waits for the answer to its request
C8_Witness ==
    /\ client.op = "translate" /\ client.phase = "waiting"
    /\ client.fromLang = "en" /\ client.toLang = "tl" /\ client.text = Hi
    /\ client.requests[1].body.target = "fil"

-----------------------------------------------------------------------------
(* Properties of the settings page *)

ActiveNav == {k \in 1..Len(page.nav) : page.nav[k].active}

ActiveSections ==
    {k \in 1..Len(page.elems) : page.elems[k].isSection /\ page.elems[k].active}

\* the sections whose id is the data-section of nav item i
SectionsNamedBy(i) ==
    {k \in 1..Len(page.elems) :
        page.elems[k].isSection /\ page.elems[k].id = page.nav[i].section}

\* the elements, sections or not, whose id is the data-section of nav item i
ElementsNamedBy(i) ==
    {k \in 1..Len(page.elems) : page.elems[k].id = page.nav[i].section}

\* C9 as stated: after any click on a nav item exactly one nav item is active,
\* the clicked one, and exactly one section is active, the one whose id is the
\* clicked item's data-section
C9_ExactlyOneSection ==
    page.last.kind = "nav" =>
        /\ ActiveNav = {page.last.i}
        /\ Cardinality(ActiveSections) = 1
        /\ ActiveSections = SectionsNamedBy(page.last.i)

\* C9 amended: after any click on a nav item exactly one nav item is active,
\* the clicked one, and at most one section is active: the first element of
\* the document whose id is the clicked item's data-section, when that element
\* is a section; no section is active when no element has that id (or when the
\* first one that has it is no section).
C9_AtMostOneSection ==
    page.last.kind = "nav" =>
        /\ ActiveNav = {page.last.i}
        /\ Cardinality(ActiveSections) <= 1
        /\ ActiveSections =
              {k \in SectionsNamedBy(page.last.i) :
                  \A j \in ElementsNamedBy(page.last.i) : k <= j}
        /\ ElementsNamedBy(page.last.i) = {} => ActiveSections = {}

\* C9 witness: a click on nav item 2, whose data-section names the second
\* section: that section alone is active now
C9_Witness ==
    /\ page.last = [kind |-> "nav", i |-> 2]
    /\ page.nav[1].section = "general" /\ page.nav[2].section = "language"
    /\ page.elems[2].id = "general" /\ page.elems[3].id = "language"
    /\ ActiveSections = {3}
    /\ ActiveNav = {2}

-----------------------------------------------------------------------------
(* Properties of the chat widget: fetch merge, Clear, blank Send *)

\* the list request i settles with a 2xx response whose body is read
FetchSucceeds(i, resp) ==
    /\ FetchResponse(i, resp)
    /\ FetchOutcome(fetches[i], resp).kind = "resolved"

\* the translation of the rule of C11 for a fetched message, given a cache
PreferredTranslation(msg, cache) ==
    IF Truthy(Get(msg, "translation")) /\ msg.translation # msg.original
    THEN msg.translation
    ELSE IF msg.id \in DOMAIN cache /\ Truthy(cache[msg.id]) THEN cache[msg.id]
    ELSE msg.original

\* C11 as stated: when a fetch response is applied, the translation stored for
\* each fetched message is the server's translation if it is non-empty and
\* differs from the original, otherwise the live translation the cache holds
\* for the message's id when the response is applied, otherwise the original.
C11_MergedWithCurrentCache ==
    [][event'.op = "fetchResolved" =>
       \A i \in 1..Len(fetches), resp \in FetchResponses \cup OddFetchResponses :
          FetchSucceeds(i, resp) =>
              /\ Len(messages') = Len(FetchOutcome(fetches[i], resp).value)
              /\ \A k \in 1..Len(messages') :
                    messages'[k].translation =
                        PreferredTranslation(FetchOutcome(fetches[i], resp).value[k],
                                             liveTranslations)]_vars

\* C12 as stated: right after Clear the list, the live-translation cache, the
\* input and the error state are empty; and a save response that arrives after
\* the Clear (here: as the next step) for a Send made before it puts no entry
\* back into the cache or the list.
C12_ClearIsFinal ==
    [][/\ event'.op = "clear" =>
            /\ messages' = <<>> /\ liveTranslations' = EmptyMap
            /\ message' = <<>> /\ apiError' = <<>>
       /\ \A s \in saves, resp \in SaveResponses :
            (event.op = "clear" /\ SaveResponse(s, resp)) =>
                /\ liveTranslations' = EmptyMap
                /\ messages' = <<>>]_vars

\* C12 amended: right after Clear the list, the live-translation cache, the
\* input and the error state are empty, whatever the state before; a save
\* response that arrives after the Clear for a Send made before it puts no
\* entry back into the list, but when it carries a message it stores that
\* message's translation in the cache under the server's id (no save response
\* ever adds an entry to the list).
C12_ClearThenCacheRefilled ==
    [][/\ event'.op = "clear" =>
            /\ messages' = <<>> /\ liveTranslations' = EmptyMap
            /\ message' = <<>> /\ apiError' = <<>>
       /\ \A s \in saves, resp \in SaveResponses :
            SaveResponse(s, resp) =>
                /\ Len(messages') = Len(messages)
                /\ \A k \in 1..Len(messages) : messages'[k].id = messages[k].id
                /\ event.op = "clear" =>
                      /\ messages' = <<>>
                      /\ liveTranslations' =
                            IF saveMessage(s.text, resp).kind = "resolved"
                               /\ HasMessage(saveMessage(s.text, resp).value)
                            THEN [k \in {resp.json.message.fields.id} |->
                                     resp.json.message.fields.translation]
                            ELSE EmptyMap]_vars

\* C12 witness: Clear has just run while the save request of the second Send
\* is in flight
C12_Witness ==
    /\ event.op = "clear"
    /\ saves # {}
    /\ sendsLeft = 0
    /\ messages = <<>> /\ liveTranslations = EmptyMap

-----------------------------------------------------------------------------
(* Properties of the client: missing fields, the two probes *)

\* the call that has just finished got a 2xx response whose body parses (to a
\* JSON object or to the JSON value null)
Got2xxJson ==
    /\ client.phase = "done"
    /\ client.resp.kind = "http" /\ ResponseOk(client.resp)
    /\ client.resp.body = "json"

\* the call that has just finished got a 2xx response whose body parses to a
\* JSON object
Got2xxObject == Got2xxJson /\ client.resp.json # JsonNull

\* C13 as stated: a 2xx response body that lacks the expected field is not an
\* error, whatever JSON value the body is: getMessages returns the empty
\* sequence when the body has no messages field, getSupportedLanguages returns
\* the empty sequence when it has no languages field, and translate (differing
\* languages, no error field) returns the original text when it has no
\* translated field.
C13_MissingFieldNeverAnError ==
    Got2xxJson =>
        /\ (client.op = "getMessages" /\ "messages" \notin DOMAIN client.resp.json)
              => client.outcome = Resolved(JArray(<<>>))
        /\ (client.op = "getSupportedLanguages"
             /\ "languages" \notin DOMAIN client.resp.json)
              => client.outcome = Resolved(JArray(<<>>))
        /\ (client.op = "translate"
             /\ "error" \notin DOMAIN client.resp.json
             /\ "translated" \notin DOMAIN client.resp.json)
              => client.outcome = Resolved(client.text)

\* C13 amended: a 2xx response whose body is a JSON object that lacks the
\* expected field is not an error: getMessages returns the empty sequence when
\* the object has no messages field, getSupportedLanguages returns the empty
\* sequence when it has no languages field, and translate (differing
\* languages, no error field) returns the original text when it has no
\* translated field.  A 2xx body that is the JSON value null makes the three
\* operations reject.
C13_MissingFieldDefaults ==
    /\ (Got2xxJson /\ client.resp.json = JsonNull
          /\ client.op \in {"getMessages", "getSupportedLanguages", "translate"})
          => client.outcome.kind = "rejected"
    /\ Got2xxObject =>
        /\ (client.op = "getMessages" /\ "messages" \notin DOMAIN client.resp.json)
              => client.outcome = Resolved(JArray(<<>>))
        /\ (client.op = "getSupportedLanguages"
             /\ "languages" \notin DOMAIN client.resp.json)
              => client.outcome = Resolved(JArray(<<>>))
        /\ (client.op = "translate"
             /\ "error" \notin DOMAIN client.resp.json
             /\ "translated" \notin DOMAIN client.resp.json)
              => client.outcome = Resolved(client.text)

\* C13 witness: getMessages has returned the empty sequence on a 200 whose body
\* is the object {}
C13_Witness ==
    /\ Got2xxObject
    /\ client.op = "getMessages" /\ client.resp.status = 200
    /\ client.resp.json = EmptyMap
    /\ client.outcome = Resolved(JArray(<<>>))

\* C14 as stated: isAvailable and testConnection never reject; isAvailable
\* returns true exactly when the root probe answers 2xx; testConnection returns
\* success = false on a network failure, on an unparsable body and on a non-2xx
\* answer, and success = true, with the status and the message, only on a 2xx
\* answer.
C14_ProbesNeverReject ==
    (client.phase = "done" /\ client.op \in {"isAvailable", "testConnection"}) =>
        /\ client.outcome.kind = "resolved"
        /\ client.op = "isAvailable" =>
              client.outcome.value = (client.resp.kind = "http" /\ ResponseOk(client.resp))
        /\ client.op = "testConnection" =>
              /\ (\/ client.resp.kind = "neterr"
                  \/ client.resp.body = "invalid"
                  \/ ~ResponseOk(client.resp)) => ~client.outcome.value.success
              /\ client.outcome.value.success =>
                    /\ ResponseOk(client.resp)
                    /\ client.outcome.value.status = client.resp.status
                    /\ client.outcome.value.message = Get(client.resp.json, "message")

\* C15: Send with an input that is empty or whitespace only is a no-op: the
\* list, the input, the error state, isSending and both per-message maps are
\* unchanged, no save request is issued and no re-fetch is scheduled.
C15_BlankSendNoOp ==
    [][(event'.op \in {"send", "sendBlank"} /\ ~Truthy(Trim(message))) =>
          /\ event'.op = "sendBlank"
          /\ UNCHANGED <<messages, message, apiError, isSending, showOriginalMap,
                         liveTranslations>>
          /\ UNCHANGED <<saves, fetches, timers>>]_vars

\* C15 witness: handleSendMessage has just returned on a whitespace-only input
\* while the list holds an entry
C15_Witness ==
    /\ event.op = "sendBlank"
    /\ message = Blank
    /\ messages # <<>>
    /\ sendsLeft > 0

\* C16: the step in which the save request of a Send settles, with success or
\* with failure, leaves isSending false and the input empty, whatever the user
\* typed while the request was in flight; isSending is true exactly while the
\* save request is in flight, and with it false the send control is disabled by
\* a blank input only; so when every request settles, every Send is followed
\* by a state with isSending false and the input empty.
C16_SettleReenables ==
    /\ [](/\ isSending <=> saves # {}
          /\ ~isSending => (SendDisabled <=> ~Truthy(Trim(message))))
    /\ [][\A s \in saves, resp \in SaveResponses :
            SaveResponse(s, resp) => (~isSending' /\ message' = <<>>)]_vars
    /\ (isSending ~> (~isSending /\ message = <<>>))

\* C16 witness: a save request has just settled with a failure and left
\* isSending false and the input empty
C16_Witness ==
    /\ event.op = "saveRejected"
    /\ ~isSending /\ message = <<>> /\ saves = {}

\* C17: toggling show-original for message id m flips m's flag only: the flag
\* of every other id, the list and the live-translation cache are unchanged,
\* and a second toggle of m restores the text displayed for every message.
C17_ToggleFlipsOne ==
    [][event'.op = "toggleOriginal" =>
          /\ ShowOriginal(showOriginalMap', event'.id)
                = ~ShowOriginal(showOriginalMap, event'.id)
          /\ \A id \in (DOMAIN showOriginalMap \cup DOMAIN showOriginalMap'
                         \cup RenderedIds) \ {event'.id} :
                /\ id \in DOMAIN showOriginalMap' <=> id \in DOMAIN showOriginalMap
                /\ ShowOriginal(showOriginalMap', id) = ShowOriginal(showOriginalMap, id)
          /\ UNCHANGED <<messages, liveTranslations>>
          /\ DisplayTexts(messages, ToggledMap(showOriginalMap', event'.id),
                          liveTranslations)
                = DisplayTexts(messages, showOriginalMap, liveTranslations)]_vars

\* C17 witness: two messages are shown, one toggled to its original and back,
\* while the other one shows its original
C17_Witness ==
    /\ event.op = "toggleOriginal"
    /\ Len(messages) = 2
    /\ messages[1].id # messages[2].id
    /\ event.id = messages[1].id
    /\ event.id \in DOMAIN showOriginalMap /\ ~showOriginalMap[event.id]
    /\ ShowOriginal(showOriginalMap, messages[2].id)
    /\ DisplayText(messages[1], showOriginalMap, liveTranslations) # messages[1].original

-----------------------------------------------------------------------------
(* Properties of the settings page: the language picker *)

\* the options whose check mark is shown
CheckedOptions(options) == {k \in 1..Len(options) : options[k].icon = "shown"}

\* the options labelled 'English (US)' that have a check icon
EnglishOptions(options) ==
    {k \in 1..Len(options) :
        options[k].label = "English (US)" /\ options[k].icon # "none"}

\* C18 as stated: exactly one language option is checked in every reachable
\* state: at load the option labelled 'English (US)' and only that one, after
\* any click the clicked option and only that one; a click on a language
\* option leaves the active nav item and the active section unchanged, and a
\* click on a nav item leaves the checked option unchanged.
C18_ExactlyOneChecked ==
    /\ [](/\ Cardinality(CheckedOptions(page.options)) = 1
          /\ page.last.kind = "load" =>
                \A k \in CheckedOptions(page.options) :
                    page.options[k].label = "English (US)"
          /\ page.last.kind = "option" => CheckedOptions(page.options) = {page.last.i})
    /\ [][/\ page'.last.kind = "option" =>
                (page'.nav = page.nav /\ page'.elems = page.elems)
          /\ page'.last.kind = "nav" => page'.options = page.options]_vars

\* C18 amended: after any click on a language option no option other than the
\* clicked one is checked, and the clicked one is checked when it has a check
\* icon (so at most one option is checked, exactly one when the clicked option
\* has the icon); at load the script checks every option labelled
\* 'English (US)' that has a check icon; a click on a language option leaves
\* the nav items and the sections unchanged, and a click on a nav item leaves
\* the options unchanged.
C18_AtMostOneChecked ==
    /\ [](/\ page.last.kind = "load" =>
                EnglishOptions(page.options) \subseteq CheckedOptions(page.options)
          /\ page.last.kind = "option" =>
                /\ CheckedOptions(page.options) \subseteq {page.last.i}
                /\ page.last.i \in CheckedOptions(page.options)
                      <=> page.options[page.last.i].icon # "none")
    /\ [][/\ page'.last.kind = "option" =>
                (page'.nav = page.nav /\ page'.elems = page.elems)
          /\ page'.last.kind = "nav" =>
                (page'.options = page.options
                 /\ page'.selectedLanguage = page.selectedLanguage)]_vars

\* C18 witness: a click on the second option, 'Filipino', after the first one,
\* 'English (US)', was checked at load: the second option alone is checked now
C18_Witness ==
    /\ page.last = [kind |-> "option", i |-> 2]
    /\ page.options[1].label = "English (US)" /\ page.options[1].icon = "hidden"
    /\ page.options[2].label = "Filipino" /\ page.options[2].icon = "shown"
    /\ page.selectedLanguage = "Filipino"

-----------------------------------------------------------------------------
(* Properties of the chat widget: overlapping fetches, no retries *)

\* list is the server list fetched, entry by entry, but for the translations
SameEntries(list, fetched) ==
    /\ Len(list) = Len(fetched)
    /\ \A k \in 1..Len(list) :
          /\ list[k].id = fetched[k].id
          /\ list[k].original = fetched[k].original
          /\ "pending" \notin DOMAIN list[k]

\* C19: fetch responses are applied in arrival order, whatever the order their
\* requests were issued in: every successful fetch response, of any of the
\* list requests in flight, replaces the whole local list by the server list
\* of that response with its translations merged, so that an entry that is in
\* the local list only, the pending optimistic entry included, is gone.
C19_LastResponseReplacesList ==
    [][event'.op = "fetchResolved" =>
       \A i \in 1..Len(fetches), resp \in FetchResponses \cup OddFetchResponses :
          FetchSucceeds(i, resp) =>
              /\ SameEntries(messages', FetchOutcome(fetches[i], resp).value)
              /\ messages' =
                    EnhancedMessages(FetchOutcome(fetches[i], resp).value, fetches[i].live)
              /\ \A k \in 1..Len(messages) :
                    ~HasId(FetchOutcome(fetches[i], resp).value, messages[k].id)
                        => ~HasId(messages', messages[k].id)]_vars

\* C19 witness: the list request of the mount, issued before the one of the
\* language change, is answered after it: its response has just replaced the
\* list, no list request is in flight any more, and the pending optimistic
\* entry of the Send whose save request is in flight is gone
C19_Witness ==
    /\ event.op = "fetchResolved"
    /\ langsLeft = 0 /\ event.id # language
    /\ fetches = <<>> /\ timers = <<>>
    /\ isSending
    /\ \E s \in saves : ~HasId(messages, s.optId)
    /\ Len(messages) = 1

\* C20: no request is retried: a Send issues exactly one save request and no
\* list request; a failed save issues no request and schedules no re-fetch; a
\* successful save schedules two re-fetches when the response carries a message
\* and one when it does not, and issues no request itself; a re-fetch that
\* comes due issues exactly one list request; a list response, failed or not,
\* issues no request and schedules nothing.
C20_NoRetry ==
    [][/\ event'.op = "send" =>
            /\ \E s \in saves' : s \notin saves /\ saves' = saves \cup {s}
            /\ UNCHANGED <<fetches, timers>>
       /\ \A s \in saves, resp \in SaveResponses :
            SaveResponse(s, resp) =>
                /\ saves' = saves \ {s}
                /\ fetches' = fetches
                /\ Len(timers') = Len(timers) +
                      (IF resp.kind = "neterr" \/ ~ResponseOk(resp) \/ resp.body = "invalid"
                       THEN 0
                       ELSE IF HasMessage(resp.json) THEN 2 ELSE 1)
       /\ event'.op = "timer" =>
            /\ Len(fetches') = Len(fetches) + 1
            /\ Len(timers') = Len(timers) - 1
            /\ saves' = saves
       /\ event'.op \in {"fetchResolved", "fetchRejected"} =>
            /\ Len(fetches') = Len(fetches) - 1
            /\ UNCHANGED <<saves, timers>>]_vars

\* C20 witness: the one re-fetch of a save without a message has just failed,
\* and no request is in flight and no re-fetch is scheduled
C20_Witness ==
    /\ event.op = "fetchRejected"
    /\ sendsLeft = 0 /\ now > 0
    /\ saves = {} /\ fetches = <<>> /\ timers = <<>>
    /\ apiError # <<>>
    /\ Len(messages) = 1 /\ messages[1].translation = Null

====
